---- MODULE Spec2Model ----
(***************************************************************************)
(* A model of the go-rules engine (src/rules.go): dynamically typed Go     *)
(* values, the path resolver, the built-in comparators, the operator       *)
(* registry, Engine.EvaluateWithContext, and the JSON wire form of a Rule. *)
(*                                                                         *)
(* Go strings are TLA+ strings.  A float64 is modelled exactly as an       *)
(* integer number of tenths (float64(25) is 250, 1.5 is 15): the values of *)
(* the model are the floats with at most one fractional decimal digit.     *)
(***************************************************************************)
EXTENDS Integers, Sequences, FiniteSets, TLC

(***************************************************************************)
(* Go values of dynamic type `any`: a record tagged with its dynamic type. *)
(***************************************************************************)
GoNil == [k |-> "nil"]
GoBool(b) == [k |-> "bool", v |-> b]
GoInt(n) == [k |-> "int", v |-> n]
GoInt64(n) == [k |-> "int64", v |-> n]
GoUint(n) == [k |-> "uint", v |-> n]
GoFloat(tenths) == [k |-> "float64", v |-> tenths]
GoString(s) == [k |-> "string", v |-> s]
GoSlice(items) == [k |-> "[]any", v |-> items]
GoStringSlice(items) == [k |-> "[]string", v |-> items]
GoIntSlice(items) == [k |-> "[]int", v |-> items]
GoMap(m) == [k |-> "map[string]any", v |-> m]
NilData == [k |-> "map[string]any(nil)"]

SignedKinds == {"int", "int8", "int16", "int32", "int64"}
UnsignedKinds == {"uint", "uint8", "uint16", "uint32", "uint64"}

(***************************************************************************)
(* String helpers: strings.Split, strings.Contains, strconv.               *)
(***************************************************************************)
CharAt(s, i) == SubSeq(s, i, i)

\* Index of the first occurrence of the one-character string c in s, 0 if none.
IndexByte(s, c) ==
    IF \E i \in 1..Len(s) : CharAt(s, i) = c
    THEN CHOOSE i \in 1..Len(s) :
            /\ CharAt(s, i) = c
            /\ \A j \in 1..(i - 1) : CharAt(s, j) # c
    ELSE 0

RECURSIVE Split(_, _)
Split(s, sep) ==
    LET i == IndexByte(s, sep)
    IN  IF i = 0 THEN <<s>>
        ELSE <<SubSeq(s, 1, i - 1)>> \o Split(SubSeq(s, i + 1, Len(s)), sep)

StringsContains(s, substr) ==
    \E i \in 1..(Len(s) - Len(substr) + 1) : SubSeq(s, i, i + Len(substr) - 1) = substr

DigitChars == "0123456789"
IsDigit(c) == \E d \in 0..9 : CharAt(DigitChars, d + 1) = c
DigitVal(c) == CHOOSE d \in 0..9 : CharAt(DigitChars, d + 1) = c
AllDigits(s) == \A i \in 1..Len(s) : IsDigit(CharAt(s, i))

RECURSIVE ParseUint(_, _)
ParseUint(s, acc) ==
    IF s = "" THEN acc ELSE ParseUint(Tail(s), acc * 10 + DigitVal(Head(s)))

RECURSIVE Itoa(_)
Itoa(n) ==
    IF n < 0 THEN "-" \o Itoa(0 - n)
    ELSE IF n < 10 THEN CharAt(DigitChars, n + 1)
    ELSE Itoa(n \div 10) \o CharAt(DigitChars, (n % 10) + 1)

\* strconv.ParseFloat(s, 64) on decimal literals [+-]digits[.digits] with at
\* most one fractional digit; <<tenths, ok>>.  Anything else in the model's
\* strings is not a float literal.
ParseFloat(s) ==
    LET signed == Len(s) > 0 /\ Head(s) \in {"-", "+"}
        neg    == Len(s) > 0 /\ Head(s) = "-"
        body   == IF signed THEN Tail(s) ELSE s
        dot    == IndexByte(body, ".")
        ip     == IF dot = 0 THEN body ELSE SubSeq(body, 1, dot - 1)
        fp     == IF dot = 0 THEN "" ELSE SubSeq(body, dot + 1, Len(body))
        mag    == ParseUint(ip, 0) * 10 + ParseUint(fp, 0)
    IN  IF AllDigits(ip) /\ AllDigits(fp) /\ Len(ip) + Len(fp) > 0 /\ Len(fp) <= 1
        THEN <<IF neg THEN 0 - mag ELSE mag, TRUE>>
        ELSE <<0, FALSE>>

\* fmt's %v of a float64 (strconv 'g', shortest form), in the model's range.
FormatFloat(t) ==
    LET a == IF t < 0 THEN 0 - t ELSE t
        sign == IF t < 0 THEN "-" ELSE ""
    IN  IF a % 10 = 0 THEN sign \o Itoa(a \div 10)
        ELSE sign \o Itoa(a \div 10) \o "." \o Itoa(a % 10)

(***************************************************************************)
(* fmt's %v of a value (the operand printed in an explanation).  fmt       *)
(* prints a map's entries in key order: MapKeys lists the keys the model   *)
(* uses, sorted.                                                           *)
(***************************************************************************)
MapKeys == <<"a", "age", "m", "premium", "role", "score", "tags", "user">>

RECURSIVE JoinStrings(_, _)
JoinStrings(parts, sep) ==
    IF parts = <<>> THEN ""
    ELSE IF Len(parts) = 1 THEN parts[1]
    ELSE parts[1] \o sep \o JoinStrings(Tail(parts), sep)

RECURSIVE FmtV(_)
FmtV(x) ==
    CASE x.k = "nil" -> "<nil>"
      [] x.k = "bool" -> (IF x.v THEN "true" ELSE "false")
      [] x.k \in SignedKinds \cup UnsignedKinds -> Itoa(x.v)
      [] x.k = "float64" -> FormatFloat(x.v)
      [] x.k = "string" -> x.v
      [] x.k = "[]any" ->
            "[" \o JoinStrings([i \in 1..Len(x.v) |-> FmtV(x.v[i])], " ") \o "]"
      [] x.k = "[]string" -> "[" \o JoinStrings(x.v, " ") \o "]"
      [] x.k = "[]int" ->
            "[" \o JoinStrings([i \in 1..Len(x.v) |-> Itoa(x.v[i])], " ") \o "]"
      [] x.k = "map[string]any" ->
            LET ks == SelectSeq(MapKeys, LAMBDA key : key \in DOMAIN x.v)
            IN  "map[" \o JoinStrings([i \in 1..Len(ks) |->
                                          ks[i] \o ":" \o FmtV(x.v[ks[i]])], " ") \o "]"

(***************************************************************************)
(* The comparison helpers.  Each comparator returns <<matched, err>>, err  *)
(* the error's message, NoErr for a nil error.                             *)
(***************************************************************************)
NoErr == "<nil>"

\* reflect.DeepEqual on values of type any: same dynamic type, same contents.
DeepEqual(a, b) == a = b

\* toFloat that also takes a boolean for a number (true 1, false 0).
toFloatBoolsToo(x) ==
    CASE x.k = "float64" -> <<x.v, TRUE>>
      [] x.k \in SignedKinds -> <<x.v * 10, TRUE>>
      [] x.k \in UnsignedKinds -> <<x.v * 10, TRUE>>
      [] x.k = "string" -> ParseFloat(x.v)
      [] x.k = "bool" -> <<IF x.v THEN 10 ELSE 0, TRUE>>
      [] OTHER -> <<0, FALSE>>

\* <<f, ok>>, f in tenths.
toFloat(x) ==
    CASE x.k = "float64" -> <<x.v, TRUE>>
      [] x.k \in SignedKinds -> <<x.v * 10, TRUE>>
      [] x.k \in UnsignedKinds -> <<x.v * 10, TRUE>>
      [] x.k = "string" -> ParseFloat(x.v)
      [] OTHER -> <<0, FALSE>>

equal(a, b) ==
    IF DeepEqual(a, b) THEN TRUE
    ELSE IF toFloat(a)[2] /\ toFloat(b)[2] THEN toFloat(a)[1] = toFloat(b)[1]
    ELSE FALSE

greater(a, b) ==
    IF toFloat(a)[2] /\ toFloat(b)[2]
    THEN <<toFloat(a)[1] > toFloat(b)[1], NoErr>>
    ELSE <<FALSE, "type mismatch for >">>

greaterOrEqual(a, b) ==
    IF toFloat(a)[2] /\ toFloat(b)[2]
    THEN <<toFloat(a)[1] >= toFloat(b)[1], NoErr>>
    ELSE <<FALSE, "type mismatch for >=">>

less(a, b) ==
    IF toFloat(a)[2] /\ toFloat(b)[2]
    THEN <<toFloat(a)[1] < toFloat(b)[1], NoErr>>
    ELSE <<FALSE, "type mismatch for <">>

lessOrEqual(a, b) ==
    IF toFloat(a)[2] /\ toFloat(b)[2]
    THEN <<toFloat(a)[1] <= toFloat(b)[1], NoErr>>
    ELSE <<FALSE, "type mismatch for <=">>

contains(a, b) ==
    IF a.k = "string" /\ b.k = "string"
    THEN <<StringsContains(a.v, b.v), NoErr>>
    ELSE <<FALSE, "type mismatch for contains">>

in(a, b) ==
    IF b.k # "[]any" THEN <<FALSE, "in requires slice value">>
    ELSE <<\E i \in 1..Len(b.v) : equal(a, b.v[i]), NoErr>>

(***************************************************************************)
(* getValue: dot-notation lookup in nested map[string]any; <<value, ok>>.  *)
(***************************************************************************)
RECURSIVE Descend(_, _)
Descend(cur, parts) ==
    IF parts = <<>> THEN <<cur, TRUE>>
    ELSE IF cur.k # "map[string]any" THEN <<GoNil, FALSE>>
    ELSE IF Head(parts) \notin DOMAIN cur.v THEN <<GoNil, FALSE>>
    ELSE Descend(cur.v[Head(parts)], Tail(parts))

getValue(data, path) ==
    IF data = NilData THEN <<GoNil, FALSE>>
    ELSE Descend(data, Split(path, "."))

(***************************************************************************)
(* The operator registry.  A registered func(any, any) (bool, error) is    *)
(* named by a function id; CallFn applies it.  The built-ins are the       *)
(* functions of registerDefaults; the others are caller-supplied.          *)
(***************************************************************************)
BuiltinFns ==
    {"equalFn", "notEqualFn", "greater", "greaterOrEqualFn", "lessFn",
     "lessOrEqualFn", "contains", "in"}

CustomErr == "custom operator failed"

CallFn(fn, a, b) ==
    CASE fn = "equalFn" -> <<equal(a, b), NoErr>>
      [] fn = "notEqualFn" -> <<~equal(a, b), NoErr>>
      [] fn = "greater" -> greater(a, b)
      [] fn = "greaterOrEqualFn" -> greaterOrEqual(a, b)
      [] fn = "lessFn" -> less(a, b)
      [] fn = "lessOrEqualFn" -> lessOrEqual(a, b)
      [] fn = "contains" -> contains(a, b)
      [] fn = "in" -> in(a, b)
      \* caller-supplied comparators
      [] fn = "alwaysTrue" -> <<TRUE, NoErr>>
      [] fn = "alwaysFalse" -> <<FALSE, NoErr>>
      [] fn = "failing" -> <<FALSE, CustomErr>>
      [] fn = "trueButFailing" -> <<TRUE, CustomErr>>
      [] fn = "sameType" -> <<a.k = b.k, NoErr>>

\* e.ops[op] = fn on a Go map: insert or overwrite.
MapStore(m, key, val) ==
    [n \in (DOMAIN m) \cup {key} |-> IF n = key THEN val ELSE m[n]]

\* Register that leaves an operator that is already registered alone.
RegisterKeepsExisting(registry, op, fn) ==
    IF op \in DOMAIN registry THEN registry ELSE MapStore(registry, op, fn)

\* Engine.Register
Register(registry, op, fn) == MapStore(registry, op, fn)

\* New(): make(map) then registerDefaults.
registerDefaults(registry) ==
    LET r1 == MapStore(registry, "eq", "equalFn")
        r2 == MapStore(r1, "ne", "notEqualFn")
        r3 == MapStore(r2, "gt", "greater")
        r4 == MapStore(r3, "gte", "greaterOrEqualFn")
        r5 == MapStore(r4, "lt", "lessFn")
        r6 == MapStore(r5, "lte", "lessOrEqualFn")
        r7 == MapStore(r6, "contains", "contains")
    IN  MapStore(r7, "in", "in")

New == registerDefaults(<<>>)

(***************************************************************************)
(* Conditions, rules, results.                                             *)
(***************************************************************************)
Condition(f, op, val) == [Field |-> f, Op |-> op, Value |-> val]
Rule(conds, lg) == [Conditions |-> conds, Logic |-> lg]
Result(m, expl) == [Matched |-> m, Explanation |-> expl]
ZeroResult == Result(FALSE, "")

\* strconv.Quote, as fmt's %q applies it to the model's plain strings.
Quote(s) == "\"" \o s \o "\""

\* fmt.Sprintf("%s %s %v → %t", c.Field, c.Op, c.Value, matched)
Explain(c, matched) ==
    c.Field \o " " \o c.Op \o " " \o FmtV(c.Value) \o " → "
        \o (IF matched THEN "true" ELSE "false")

\* evalCondition with a comparator's error taken for "no match", and without
\* the context check: the two slips the error and cancellation claims exclude.
evalConditionSwallowsErr(ctxErr, c, data, registry) ==
    IF ctxErr # NoErr
    THEN [matched |-> FALSE, expl |-> "", err |-> ctxErr, did |-> <<>>]
    ELSE
    LET gv == getValue(data, c.Field)
        resolved == <<[ev |-> "getValue", arg |-> c.Field]>>
        lookedUp == resolved \o <<[ev |-> "lookup", arg |-> c.Op]>>
    IN  IF ~gv[2]
        THEN [matched |-> FALSE, expl |-> "",
              err |-> "field " \o Quote(c.Field) \o " not found: field not found",
              did |-> resolved]
        ELSE IF c.Op \notin DOMAIN registry
        THEN [matched |-> FALSE, expl |-> "",
              err |-> "unknown operator " \o Quote(c.Op), did |-> lookedUp]
        ELSE
        LET fn == registry[c.Op]
            r == CallFn(fn, gv[1], c.Value)
            called == lookedUp \o <<[ev |-> "call", arg |-> fn]>>
        IN  [matched |-> r[1] /\ r[2] = NoErr,
             expl |-> Explain(c, r[1] /\ r[2] = NoErr), err |-> NoErr, did |-> called]

evalConditionNoCtxCheck(ctxErr, c, data, registry) ==
    LET gv == getValue(data, c.Field)
        resolved == <<[ev |-> "getValue", arg |-> c.Field]>>
        lookedUp == resolved \o <<[ev |-> "lookup", arg |-> c.Op]>>
    IN  IF ~gv[2]
        THEN [matched |-> FALSE, expl |-> "",
              err |-> "field " \o Quote(c.Field) \o " not found: field not found",
              did |-> resolved]
        ELSE IF c.Op \notin DOMAIN registry
        THEN [matched |-> FALSE, expl |-> "",
              err |-> "unknown operator " \o Quote(c.Op), did |-> lookedUp]
        ELSE
        LET fn == registry[c.Op]
            r == CallFn(fn, gv[1], c.Value)
            called == lookedUp \o <<[ev |-> "call", arg |-> fn]>>
        IN  IF r[2] # NoErr
            THEN [matched |-> FALSE, expl |-> "", err |-> r[2], did |-> called]
            ELSE [matched |-> r[1], expl |-> Explain(c, r[1]), err |-> NoErr,
                  did |-> called]

\* Engine.evalCondition(ctx, c, data) with ctx.Err() = ctxErr and e.ops =
\* registry.  `did` lists what the call touched, in order: the field
\* resolved, the operator looked up, the comparator invoked.
evalCondition(ctxErr, c, data, registry) ==
    IF ctxErr # NoErr
    THEN [matched |-> FALSE, expl |-> "", err |-> ctxErr, did |-> <<>>]
    ELSE
    LET gv == getValue(data, c.Field)
        resolved == <<[ev |-> "getValue", arg |-> c.Field]>>
        lookedUp == resolved \o <<[ev |-> "lookup", arg |-> c.Op]>>
    IN  IF ~gv[2]
        THEN [matched |-> FALSE, expl |-> "",
              err |-> "field " \o Quote(c.Field) \o " not found: field not found",
              did |-> resolved]
        ELSE IF c.Op \notin DOMAIN registry
        THEN [matched |-> FALSE, expl |-> "",
              err |-> "unknown operator " \o Quote(c.Op), did |-> lookedUp]
        ELSE
        LET fn == registry[c.Op]
            r == CallFn(fn, gv[1], c.Value)
            called == lookedUp \o <<[ev |-> "call", arg |-> fn]>>
        IN  IF r[2] # NoErr
            THEN [matched |-> FALSE, expl |-> "", err |-> r[2], did |-> called]
            ELSE [matched |-> r[1], expl |-> Explain(c, r[1]), err |-> NoErr,
                  did |-> called]

\* Enter without the empty-rule return: the loops run zero times.
EnterNoEmptyCheck(ctxErr, r) ==
    IF ctxErr # NoErr
    THEN [pc |-> "done", i |-> 0, logic |-> "", result |-> ZeroResult, err |-> ctxErr]
    ELSE IF Len(r.Conditions) = 0
    THEN [pc |-> "done", i |-> 0, logic |-> "",
          result |-> IF r.Logic \in {"", "and"} THEN Result(TRUE, "all conditions met")
                     ELSE Result(FALSE, "no conditions met"),
          err |-> NoErr]
    ELSE [pc |-> "loop", i |-> 1, logic |-> IF r.Logic = "" THEN "and" ELSE r.Logic,
          result |-> ZeroResult, err |-> NoErr]

\* Lines 102-111 of EvaluateWithContext: the pre-check, the empty rule and the
\* default logic.  Either the call returns at once (pc "done") or it enters
\* the loop with its first condition.
Enter(ctxErr, r) ==
    IF ctxErr # NoErr
    THEN [pc |-> "done", i |-> 0, logic |-> "", result |-> ZeroResult, err |-> ctxErr]
    ELSE IF Len(r.Conditions) = 0
    THEN [pc |-> "done", i |-> 0, logic |-> "", result |-> Result(TRUE, ""), err |-> NoErr]
    ELSE [pc |-> "loop", i |-> 1, logic |-> IF r.Logic = "" THEN "and" ELSE r.Logic,
          result |-> ZeroResult, err |-> NoErr]

\* LoopStep with an AND loop that goes on after a false condition, and with an
\* OR loop that goes on after a true one: the loops without their short-circuit.
LoopStepAndRunsOn(lg, idx, n, ec) ==
    IF ec.err # NoErr
    THEN [pc |-> "done", i |-> idx, result |-> ZeroResult, err |-> ec.err]
    ELSE IF lg = "and"
    THEN IF idx = n
         THEN [pc |-> "done", i |-> idx,
               result |-> IF ec.matched THEN Result(TRUE, "all conditions met")
                          ELSE Result(FALSE, ec.expl),
               err |-> NoErr]
         ELSE [pc |-> "loop", i |-> idx + 1, result |-> ZeroResult, err |-> NoErr]
    ELSE IF ec.matched
         THEN [pc |-> "done", i |-> idx, result |-> Result(TRUE, ec.expl), err |-> NoErr]
         ELSE IF idx = n
         THEN [pc |-> "done", i |-> idx, result |-> Result(FALSE, "no conditions met"),
               err |-> NoErr]
         ELSE [pc |-> "loop", i |-> idx + 1, result |-> ZeroResult, err |-> NoErr]

LoopStepOrRunsOn(lg, idx, n, ec) ==
    IF ec.err # NoErr
    THEN [pc |-> "done", i |-> idx, result |-> ZeroResult, err |-> ec.err]
    ELSE IF lg = "and"
    THEN IF ~ec.matched
         THEN [pc |-> "done", i |-> idx, result |-> Result(FALSE, ec.expl), err |-> NoErr]
         ELSE IF idx = n
         THEN [pc |-> "done", i |-> idx, result |-> Result(TRUE, "all conditions met"),
               err |-> NoErr]
         ELSE [pc |-> "loop", i |-> idx + 1, result |-> ZeroResult, err |-> NoErr]
    ELSE IF idx = n
         THEN [pc |-> "done", i |-> idx,
               result |-> IF ec.matched THEN Result(TRUE, ec.expl)
                          ELSE Result(FALSE, "no conditions met"),
               err |-> NoErr]
         ELSE [pc |-> "loop", i |-> idx + 1, result |-> ZeroResult, err |-> NoErr]

\* One iteration of the AND loop (lines 113-122) or of the OR loop (lines
\* 125-134) on condition idx of n, ec the result of its evalCondition; the
\* return after the loop belongs to the last iteration.
LoopStep(lg, idx, n, ec) ==
    IF ec.err # NoErr
    THEN [pc |-> "done", i |-> idx, result |-> ZeroResult, err |-> ec.err]
    ELSE IF lg = "and"
    THEN IF ~ec.matched
         THEN [pc |-> "done", i |-> idx, result |-> Result(FALSE, ec.expl), err |-> NoErr]
         ELSE IF idx = n
         THEN [pc |-> "done", i |-> idx, result |-> Result(TRUE, "all conditions met"),
               err |-> NoErr]
         ELSE [pc |-> "loop", i |-> idx + 1, result |-> ZeroResult, err |-> NoErr]
    ELSE IF ec.matched
         THEN [pc |-> "done", i |-> idx, result |-> Result(TRUE, ec.expl), err |-> NoErr]
         ELSE IF idx = n
         THEN [pc |-> "done", i |-> idx, result |-> Result(FALSE, "no conditions met"),
               err |-> NoErr]
         ELSE [pc |-> "loop", i |-> idx + 1, result |-> ZeroResult, err |-> NoErr]

\* A whole call of e.Evaluate(r, d) with e.ops = registry: <<Result, err>>.
RECURSIVE RunLoop(_, _, _, _, _)
RunLoop(lg, idx, r, d, registry) ==
    LET st == LoopStep(lg, idx, Len(r.Conditions),
                       evalCondition(NoErr, r.Conditions[idx], d, registry))
    IN  IF st.pc = "done" THEN <<st.result, st.err>>
        ELSE RunLoop(lg, st.i, r, d, registry)

EngineEvaluate(r, d, registry) ==
    LET en == Enter(NoErr, r)
    IN  IF en.pc = "done" THEN <<en.result, en.err>>
        ELSE RunLoop(en.logic, en.i, r, d, registry)

(***************************************************************************)
(* encoding/json.  A JSON text is modelled by its tree; a number keeps the *)
(* literal json.Marshal writes (an int and an integral float64 write the   *)
(* same literal).  Unmarshal into `any` gives nil, bool, float64, string,  *)
(* []any and map[string]any.                                               *)
(***************************************************************************)
GoStruct(fields) == [k |-> "struct", v |-> fields]

RECURSIVE Marshal(_)
Marshal(x) ==
    CASE x.k = "nil" -> [j |-> "null"]
      [] x.k = "bool" -> [j |-> "bool", v |-> x.v]
      [] x.k \in SignedKinds \cup UnsignedKinds -> [j |-> "number", v |-> Itoa(x.v)]
      [] x.k = "float64" -> [j |-> "number", v |-> FormatFloat(x.v)]
      [] x.k = "string" -> [j |-> "string", v |-> x.v]
      [] x.k = "[]any" -> [j |-> "array", v |-> [n \in 1..Len(x.v) |-> Marshal(x.v[n])]]
      [] x.k = "[]string" ->
            [j |-> "array", v |-> [n \in 1..Len(x.v) |-> [j |-> "string", v |-> x.v[n]]]]
      [] x.k = "[]int" ->
            [j |-> "array", v |-> [n \in 1..Len(x.v) |-> [j |-> "number", v |-> Itoa(x.v[n])]]]
      [] x.k \in {"map[string]any", "struct"} ->
            [j |-> "object", v |-> [key \in DOMAIN x.v |-> Marshal(x.v[key])]]

RECURSIVE Unmarshal(_)
Unmarshal(t) ==
    CASE t.j = "null" -> GoNil
      [] t.j = "bool" -> GoBool(t.v)
      [] t.j = "number" -> GoFloat(ParseFloat(t.v)[1])
      [] t.j = "string" -> GoString(t.v)
      [] t.j = "array" -> GoSlice([n \in 1..Len(t.v) |-> Unmarshal(t.v[n])])
      [] t.j = "object" -> GoMap([key \in DOMAIN t.v |-> Unmarshal(t.v[key])])

\* FromStruct: json.Marshal, then json.Unmarshal into a map[string]any;
\* <<map, err>>.
FromStruct(x) ==
    LET b == Marshal(x)
    IN  IF b.j = "object" THEN <<Unmarshal(b), NoErr>>
        ELSE IF b.j = "null" THEN <<NilData, NoErr>>
        ELSE <<NilData, "json: cannot unmarshal " \o b.j
                           \o " into Go value of type map[string]interface {}">>

\* json.Marshal of a Rule: the tags of Condition and Rule, logic omitted when
\* empty.
MarshalRule(r) ==
    LET conds == [j |-> "array",
                  v |-> [n \in 1..Len(r.Conditions) |->
                            [j |-> "object",
                             v |-> ("field" :> [j |-> "string", v |-> r.Conditions[n].Field]
                                    @@ "op" :> [j |-> "string", v |-> r.Conditions[n].Op]
                                    @@ "value" :> Marshal(r.Conditions[n].Value))]]]
    IN  [j |-> "object",
         v |-> IF r.Logic = "" THEN "conditions" :> conds
               ELSE ("conditions" :> conds @@ "logic" :> [j |-> "string", v |-> r.Logic])]

\* json.Unmarshal into a Rule.
UnmarshalRule(t) ==
    LET cs == t.v["conditions"].v
    IN  [Conditions |-> [n \in 1..Len(cs) |->
                            [Field |-> cs[n].v["field"].v, Op |-> cs[n].v["op"].v,
                             Value |-> Unmarshal(cs[n].v["value"])]],
         Logic |-> IF "logic" \in DOMAIN t.v THEN t.v["logic"].v ELSE ""]

(***************************************************************************)
(* The engine as a state machine: one Engine, a caller that builds a Rule, *)
(* registers operators and evaluates.  A call of EvaluateWithContext is    *)
(* entered, then runs one condition per step; the context's owner may      *)
(* cancel it between two steps.                                            *)
(***************************************************************************)
VARIABLES
    ops,          \* Engine.ops
    rule,         \* the caller's Rule
    data,         \* the record of the call in progress
    ctxKind,      \* "none" (no call) | "background" | "cancellable"
    ctxErr,       \* ctx.Err() now
    pc,           \* "idle" | "loop" | "done"
    i,            \* index of the next condition of the loop
    logic,        \* the local variable logic
    result,       \* the returned Result
    err,          \* the returned error
    events,       \* history: what the call touched, [i, ev, arg] in order
    callCtxErr,   \* history: ctx.Err() when the call was made
    cancelledAt,  \* history: i when the context was cancelled, 0 if it was not
    regLog,       \* history: the Register calls, in order
    regAfterRule, \* history: Register was called since the Rule was built
    pin,          \* input of a pure-function check
    pout,         \* its output
    tpc,          \* concurrent use: each goroutine's position
    tlocal,       \* concurrent use: each goroutine's locals
    mapState      \* concurrent use: what a racing map access left behind

engineVars == <<ops, rule, data, ctxKind, ctxErr, pc, i, logic, result, err, events,
                callCtxErr, cancelledAt, regLog, regAfterRule>>
pureVars == <<pin, pout>>
concVars == <<tpc, tlocal, mapState>>
vars == <<engineVars, pureVars, concVars>>

(***************************************************************************)
(* Bounds and input sets.                                                  *)
(***************************************************************************)
MaxConds == 2
MaxRegs == 2

RecordA ==
    GoMap("age" :> GoInt(17) @@ "premium" :> GoBool(TRUE) @@ "role" :> GoString("user")
          @@ "score" :> GoFloat(1500) @@ "tags" :> GoString("golang rules")
          @@ "user" :> GoMap("role" :> GoString("admin")))

Datas == {RecordA, NilData}

LogicValues == {"", "and", "or", "xor"}

CondPool ==
    {Condition("age", "gt", GoInt(18)),
     Condition("user.role", "eq", GoString("admin")),
     Condition("missing.field", "eq", GoInt(1)),
     Condition("age", "between", GoInt(1)),
     Condition("premium", "gt", GoInt(1)),
     Condition("tags", "contains", GoString("go"))}

SeqsUpTo(S, n) == UNION {[1..m -> S] : m \in 0..n}

Rules == {Rule(cs, lg) : cs \in SeqsUpTo(CondPool, MaxConds), lg \in LogicValues}

Registrations ==
    {<<"between", "alwaysTrue">>, <<"between", "trueButFailing">>, <<"gt", "alwaysFalse">>}

CtxErrors == {"context canceled", "context deadline exceeded"}

NoCall ==
    /\ data = NilData /\ ctxKind = "none" /\ ctxErr = NoErr /\ pc = "idle" /\ i = 0
    /\ logic = "" /\ result = ZeroResult /\ err = NoErr /\ events = <<>>
    /\ callCtxErr = NoErr /\ cancelledAt = 0

PureIdle == pin = [op |-> "none"] /\ pout = [op |-> "none"]
ConcIdle == tpc = <<>> /\ tlocal = <<>> /\ mapState = "ok"

Init ==
    /\ ops = New
    /\ rule = Rule(<<>>, "")
    /\ NoCall
    /\ regLog = <<>> /\ regAfterRule = FALSE
    /\ PureIdle /\ ConcIdle

\* The caller builds the Rule it is going to evaluate.
NewRule(r) ==
    /\ pc = "idle" /\ rule = Rule(<<>>, "")
    /\ rule' = r
    /\ regAfterRule' = FALSE
    /\ UNCHANGED <<ops, data, ctxKind, ctxErr, pc, i, logic, result, err, events,
                   callCtxErr, cancelledAt, regLog, pureVars, concVars>>

\* e.Register(op, fn), from the goroutine that also evaluates.
RegisterOp(op, fn, logged) ==
    /\ pc = "idle"
    /\ ops' = Register(ops, op, fn)
    /\ regLog' = IF logged THEN Append(regLog, <<op, fn>>) ELSE regLog
    /\ regAfterRule' = TRUE
    /\ UNCHANGED <<rule, data, ctxKind, ctxErr, pc, i, logic, result, err, events,
                   callCtxErr, cancelledAt, pureVars, concVars>>

\* The entry of e.EvaluateWithContext(ctx, rule, d), ctx.Err() being cerr.
Call(kind, cerr, d) ==
    /\ pc = "idle"
    /\ LET en == Enter(cerr, rule)
       IN  /\ pc' = en.pc /\ i' = en.i /\ logic' = en.logic
           /\ result' = en.result /\ err' = en.err
    /\ data' = d /\ ctxKind' = kind /\ ctxErr' = cerr /\ callCtxErr' = cerr
    /\ events' = <<>> /\ cancelledAt' = 0
    /\ UNCHANGED <<ops, rule, regLog, regAfterRule, pureVars, concVars>>

\* e.Evaluate(rule, d): EvaluateWithContext with context.Background().
Evaluate(d) == Call("background", NoErr, d)

\* e.EvaluateWithContext(ctx, rule, d) with a context that can be cancelled, or
\* already is.
EvaluateWithContext(cerr, d) == Call("cancellable", cerr, d)

\* The next iteration of the loop: evalCondition on condition i, then the
\* loop's decision.
NextCondition ==
    /\ pc = "loop"
    /\ LET ec == evalCondition(ctxErr, rule.Conditions[i], data, ops)
           st == LoopStep(logic, i, Len(rule.Conditions), ec)
       IN  /\ pc' = st.pc /\ i' = st.i /\ result' = st.result /\ err' = st.err
           /\ events' = events \o [j \in 1..Len(ec.did) |->
                                      [i |-> i, ev |-> ec.did[j].ev, arg |-> ec.did[j].arg]]
    /\ UNCHANGED <<ops, rule, data, ctxKind, ctxErr, logic, callCtxErr, cancelledAt,
                   regLog, regAfterRule, pureVars, concVars>>

\* The context's owner cancels it (or its deadline passes) while the call is
\* between two conditions.
Cancel(cerr) ==
    /\ pc = "loop" /\ ctxKind = "cancellable" /\ ctxErr = NoErr
    /\ ctxErr' = cerr
    /\ cancelledAt' = i
    /\ UNCHANGED <<ops, rule, data, ctxKind, pc, i, logic, result, err, events,
                   callCtxErr, regLog, regAfterRule, pureVars, concVars>>

\* The caller takes the (Result, error) and is done with the Rule.
Return ==
    /\ pc = "done"
    /\ rule' = Rule(<<>>, "") /\ regAfterRule' = FALSE
    /\ data' = NilData /\ ctxKind' = "none" /\ ctxErr' = NoErr /\ pc' = "idle" /\ i' = 0
    /\ logic' = "" /\ result' = ZeroResult /\ err' = NoErr /\ events' = <<>>
    /\ callCtxErr' = NoErr /\ cancelledAt' = 0
    /\ UNCHANGED <<ops, regLog, pureVars, concVars>>

Next ==
    \/ \E r \in Rules : NewRule(r)
    \/ \E reg \in Registrations : RegisterOp(reg[1], reg[2], FALSE)
    \/ \E d \in Datas : Evaluate(d)
    \/ \E d \in Datas, cerr \in CtxErrors \cup {NoErr} : EvaluateWithContext(cerr, d)
    \/ NextCondition
    \/ \E cerr \in CtxErrors : Cancel(cerr)
    \/ Return

Spec == Init /\ [][Next]_vars

(***************************************************************************)
(* What the claims speak of, stated on the call in progress without the    *)
(* evaluator: what each condition of the rule would do on this record      *)
(* with this registry, and what the call has touched so far.               *)
(***************************************************************************)
Conds == rule.Conditions
CondIdx == 1..Len(Conds)
Resolves(k) == getValue(data, Conds[k].Field)[2]
Registered(k) == Conds[k].Op \in DOMAIN ops
CmpOf(k) == CallFn(ops[Conds[k].Op], getValue(data, Conds[k].Field)[1], Conds[k].Value)
CondTrue(k) == Resolves(k) /\ Registered(k) /\ CmpOf(k) = <<TRUE, NoErr>>
CondFalse(k) == Resolves(k) /\ Registered(k) /\ CmpOf(k) = <<FALSE, NoErr>>
CondFails(k) == ~Resolves(k) \/ ~Registered(k) \/ CmpOf(k)[2] # NoErr
FailureOf(k) ==
    IF ~Resolves(k) THEN "field \"" \o Conds[k].Field \o "\" not found: field not found"
    ELSE IF ~Registered(k) THEN "unknown operator \"" \o Conds[k].Op \o "\""
    ELSE CmpOf(k)[2]
ExplanationOf(k, outcome) ==
    Conds[k].Field \o " " \o Conds[k].Op \o " " \o FmtV(Conds[k].Value) \o " → " \o outcome

Touched(k) == \E e \in 1..Len(events) : events[e].i = k
Invoked(k) == \E e \in 1..Len(events) : events[e].i = k /\ events[e].ev = "call"
NoneAfter(k) == \A e \in 1..Len(events) : events[e].i <= k
InOrder == \A p, q \in 1..Len(events) : p < q => events[p].i <= events[q].i
InCall == pc \in {"loop", "done"}

\* C1: under AND logic ("and" or unset) the conditions are evaluated in declared
\* order; the condition whose comparator returns false ends the call with
\* matched=false, the explanation "<field> <op> <value> → false" and no error,
\* and no later condition is touched; when the comparator returned true for
\* every condition the call returns matched=true, "all conditions met".
C1_AndShortCircuit ==
    (InCall /\ rule.Logic \in {"", "and"}) =>
        /\ InOrder
        /\ \A k \in CondIdx :
              (Invoked(k) /\ CondFalse(k)) =>
                  /\ pc = "done"
                  /\ result = Result(FALSE, ExplanationOf(k, "false"))
                  /\ err = NoErr
                  /\ NoneAfter(k)
        /\ (pc = "done" /\ Len(Conds) > 0 /\ \A k \in CondIdx : Invoked(k) /\ CondTrue(k)) =>
              (result = Result(TRUE, "all conditions met") /\ err = NoErr)

\* C1 witness: an AND call ended by its first condition being false while the
\* second one would have failed.
C1_Witness ==
    /\ pc = "done" /\ rule.Logic \in {"", "and"} /\ Len(Conds) = 2
    /\ Invoked(1) /\ CondFalse(1) /\ CondFails(2)
    /\ result.Matched = FALSE /\ err = NoErr

\* C2: under OR logic the conditions are evaluated in declared order; the
\* condition whose comparator returns true ends the call with matched=true, the
\* explanation "<field> <op> <value> → true" and no error, and no later
\* condition is touched; when the comparator returned false for every condition
\* the call returns matched=false, "no conditions met".
C2_OrShortCircuit ==
    (InCall /\ rule.Logic = "or") =>
        /\ InOrder
        /\ \A k \in CondIdx :
              (Invoked(k) /\ CondTrue(k)) =>
                  /\ pc = "done"
                  /\ result = Result(TRUE, ExplanationOf(k, "true"))
                  /\ err = NoErr
                  /\ NoneAfter(k)
        /\ (pc = "done" /\ Len(Conds) > 0 /\ \A k \in CondIdx : Invoked(k) /\ CondFalse(k)) =>
              (result = Result(FALSE, "no conditions met") /\ err = NoErr)

\* C2 witness: an OR call ended by its first condition being true while the
\* second one would have failed.
C2_Witness ==
    /\ pc = "done" /\ rule.Logic = "or" /\ Len(Conds) = 2
    /\ Invoked(1) /\ CondTrue(1) /\ CondFails(2)
    /\ result.Matched = TRUE /\ err = NoErr

\* C3: whatever the logic, a condition the evaluation reaches whose field does
\* not resolve, whose operator is not registered or whose comparator returns an
\* error ends the call with that error and the zero Result, no later condition
\* is touched, and no call returns an error together with a non-zero Result.
C3_ErrorAborts ==
    /\ (pc = "done" /\ err # NoErr) => result = ZeroResult
    /\ InCall =>
          \A k \in CondIdx :
              (Touched(k) /\ CondFails(k)) =>
                  /\ pc = "done"
                  /\ err = FailureOf(k)
                  /\ result = ZeroResult
                  /\ NoneAfter(k)

\* C3 witness: a call whose second condition's comparator returned (true, error).
C3_Witness ==
    /\ pc = "done" /\ Len(Conds) = 2 /\ Touched(2)
    /\ Resolves(2) /\ Registered(2) /\ CmpOf(2) = <<TRUE, CustomErr>>
    /\ err = CustomErr

\* C4: a rule with no conditions evaluates to matched=true with an empty
\* explanation and no error, whatever the record, the logic and the registry,
\* and nothing is resolved or looked up.
C4_EmptyRuleMatches ==
    (pc = "done" /\ Len(Conds) = 0 /\ callCtxErr = NoErr) =>
        (result = Result(TRUE, "") /\ err = NoErr /\ events = <<>>)

\* C4 witness: Evaluate of an empty OR rule on a nil record, the registry
\* changed since New.
C4_Witness ==
    /\ pc = "done" /\ Len(Conds) = 0 /\ ctxKind = "background"
    /\ rule.Logic = "or" /\ data = NilData /\ ops # New
    /\ result.Matched

\* C8: every error of an evaluation names the failing condition: field-not-found
\* carries the field path, unknown-operator the operator identifier, and a
\* built-in comparator's type mismatch the operator identifier.
C8_ErrorsNameTheCondition ==
    (pc = "done" /\ err # NoErr /\ err \notin CtxErrors /\ events # <<>>) =>
        LET k == events[Len(events)].i
            c == Conds[k]
        IN  /\ ~Resolves(k) => StringsContains(err, c.Field)
            /\ (Resolves(k) /\ ~Registered(k)) => StringsContains(err, c.Op)
            /\ (Resolves(k) /\ Registered(k) /\ ops[c.Op] \in BuiltinFns
                    /\ c.Op \in {"gt", "gte", "lt", "lte", "contains", "in"}) =>
                  StringsContains(err, c.Op)

\* C9: a call made with a context that is already cancelled returns the
\* context's error and the zero Result and touches nothing, whatever the rule;
\* once the context is cancelled between two conditions, no further condition
\* is touched and the call returns the context's error and the zero Result.
C9_CancellationStopsTheCall ==
    /\ (pc = "done" /\ callCtxErr # NoErr) =>
          (err = callCtxErr /\ result = ZeroResult /\ events = <<>>)
    /\ cancelledAt > 0 =>
          /\ \A e \in 1..Len(events) : events[e].i < cancelledAt
          /\ pc = "done" => (err = ctxErr /\ err \in CtxErrors /\ result = ZeroResult)

\* C9 witness: a call cancelled after its first condition and before its second.
C9_Witness ==
    /\ pc = "done" /\ cancelledAt = 2 /\ Invoked(1) /\ err \in CtxErrors

(***************************************************************************)
(* Registration and late binding: the caller registers operators before    *)
(* and after it builds its Rule, then evaluates; regLog keeps the calls.   *)
(***************************************************************************)
RegOps == {"gt", "between"}
RegFns == {"alwaysTrue", "alwaysFalse", "failing"}

RegRules ==
    {Rule(<<c>>, "") :
        c \in {Condition("age", "gt", GoInt(18)),
               Condition("age", "between", GoInt(1)),
               Condition("age", "lt", GoInt(18))}}

NextReg ==
    \/ \E r \in RegRules : NewRule(r)
    \/ \E op \in RegOps, fn \in RegFns :
          Len(regLog) < MaxRegs /\ RegisterOp(op, fn, TRUE)
    \/ Evaluate(RecordA)
    \/ NextCondition
    \/ Return

SpecReg == Init /\ [][NextReg]_vars

\* The built-in operator names and their functions, as New documents them.
BuiltinOf ==
    [n \in {"eq", "ne", "gt", "gte", "lt", "lte", "contains", "in"} |->
        CASE n = "eq" -> "equalFn" [] n = "ne" -> "notEqualFn"
          [] n = "gt" -> "greater" [] n = "gte" -> "greaterOrEqualFn"
          [] n = "lt" -> "lessFn" [] n = "lte" -> "lessOrEqualFn"
          [] n = "contains" -> "contains" [] n = "in" -> "in"]

\* The function most recently registered under n: the last Register of the log
\* under that name, else the built-in of that name, else "none".
Latest(log, n) ==
    LET at == {j \in 1..Len(log) : log[j][1] = n}
    IN  IF at # {} THEN log[CHOOSE j \in at : \A j2 \in at : j2 <= j][2]
        ELSE IF n \in DOMAIN BuiltinOf THEN BuiltinOf[n]
        ELSE "none"

\* C6: a condition with operator n invokes exactly the function most recently
\* registered under n (a built-in when never re-registered), looked up when the
\* rule is evaluated, and the call returns that function's (matched, error); a
\* name never registered gives the unknown-operator error.
C6_LatestRegistrationWins ==
    InCall =>
        \A k \in CondIdx :
            LET fn == Latest(regLog, Conds[k].Op)
                r == CallFn(fn, getValue(data, Conds[k].Field)[1], Conds[k].Value)
            IN  /\ \A e \in 1..Len(events) :
                      (events[e].i = k /\ events[e].ev = "call") => events[e].arg = fn
                /\ (Touched(k) /\ Resolves(k) /\ fn # "none") => Invoked(k)
                /\ (Touched(k) /\ Resolves(k) /\ fn = "none") =>
                      /\ ~Invoked(k)
                      /\ pc = "done"
                      /\ err = "unknown operator \"" \o Conds[k].Op \o "\""
                /\ (Invoked(k) /\ Len(Conds) = 1) =>
                      /\ pc = "done"
                      /\ err = r[2]
                      /\ r[2] = NoErr => result.Matched = r[1]

\* C6 witness: gt registered twice, the second time after the Rule was built;
\* the evaluation invoked the second function, not the first, not the built-in.
C6_Witness ==
    /\ pc = "done" /\ regAfterRule /\ Len(regLog) = 2
    /\ regLog[1] = <<"gt", "alwaysTrue">> /\ regLog[2] = <<"gt", "alwaysFalse">>
    /\ Len(Conds) = 1 /\ Conds[1].Op = "gt" /\ Invoked(1)
    /\ events[Len(events)].arg = "alwaysFalse"
    /\ result.Matched = FALSE /\ err = NoErr

(***************************************************************************)
(* The built-in eq and ne, and FromStruct, applied to pairs of values.     *)
(***************************************************************************)
Nums == {0, 1, 100}

Values ==
    {GoNil, GoBool(TRUE), GoBool(FALSE)}
    \cup {GoInt(n) : n \in Nums} \cup {GoInt64(n) : n \in Nums} \cup {GoUint(n) : n \in Nums}
    \cup {GoFloat(10 * n) : n \in Nums} \cup {GoFloat(15)}
    \cup {GoString(t) : t \in {"100", "1", "1.5", "+1", "-1", "abc", "", "1.5x", "true"}}
    \cup {GoSlice(<<GoInt(1)>>), GoSlice(<<GoFloat(10)>>), GoIntSlice(<<1>>),
          GoMap("a" :> GoInt(1)), GoMap("a" :> GoFloat(10))}

InitEq ==
    /\ ops = New
    /\ rule = Rule(<<>>, "")
    /\ NoCall
    /\ regLog = <<>> /\ regAfterRule = FALSE
    /\ pin \in {[op |-> "values", a |-> a, b |-> b] : a \in Values, b \in Values}
    /\ pout = [op |-> "none"]
    /\ ConcIdle

\* The registered eq and ne applied to (a, b).
Compare ==
    /\ pout.op = "none"
    /\ pout' = [op |-> "compare", eq |-> CallFn(ops["eq"], pin.a, pin.b),
                ne |-> CallFn(ops["ne"], pin.a, pin.b)]
    /\ UNCHANGED <<engineVars, pin, concVars>>

\* FromStruct of a struct whose field tagged "age" holds a, and eq of the
\* record's field with b.
ConvertStruct ==
    /\ pout.op = "none"
    /\ LET m == FromStruct(GoStruct("age" :> pin.a))
       IN  pout' = [op |-> "fromStruct", field |-> m[1].v["age"], err |-> m[2],
                    eq |-> CallFn(ops["eq"], m[1].v["age"], pin.b)]
    /\ UNCHANGED <<engineVars, pin, concVars>>

NextEq == Compare \/ ConvertStruct

SpecEq == InitEq /\ [][NextEq]_vars

\* The decimal strings of Values and the numbers they denote, in tenths.
DecimalOf == ("100" :> 1000) @@ ("1" :> 10) @@ ("1.5" :> 15) @@ ("+1" :> 10) @@ ("-1" :> (0 - 10))
IntegerKinds == SignedKinds \cup UnsignedKinds
IsNumber(x) ==
    \/ x.k \in IntegerKinds \cup {"float64"}
    \/ x.k = "string" /\ x.v \in DOMAIN DecimalOf
NumberOf(x) ==
    IF x.k = "float64" THEN x.v
    ELSE IF x.k = "string" THEN DecimalOf[x.v]
    ELSE 10 * x.v

\* C10: eq never errors and is true exactly when the two values are
\* structurally identical or both are numbers (integer, float, decimal string)
\* of equal magnitude; eq(100, 100.0) and eq("100", 100) hold, eq("abc", 100)
\* does not, a boolean never equals a number, the float FromStruct makes of an
\* integer field equals the same integer; ne is the negation of eq.
C10_EqIsStructuralOrNumeric ==
    /\ pout.op = "compare" =>
          /\ pout.eq[2] = NoErr /\ pout.ne[2] = NoErr
          /\ pout.eq[1] <=>
                (\/ pin.a = pin.b
                 \/ IsNumber(pin.a) /\ IsNumber(pin.b) /\ NumberOf(pin.a) = NumberOf(pin.b))
          /\ pout.ne[1] = ~pout.eq[1]
          /\ (pin.a = GoInt(100) /\ pin.b = GoFloat(1000)) => pout.eq[1]
          /\ (pin.a = GoString("100") /\ pin.b = GoInt(100)) => pout.eq[1]
          /\ (pin.a = GoString("abc") /\ pin.b = GoInt(100)) => ~pout.eq[1]
          /\ (pin.a.k = "bool" /\ IsNumber(pin.b)) => ~pout.eq[1]
          /\ (pin.b.k = "bool" /\ IsNumber(pin.a)) => ~pout.eq[1]
    /\ (pout.op = "fromStruct" /\ pin.a.k \in IntegerKinds) =>
          /\ pout.err = NoErr
          /\ pout.field = GoFloat(10 * pin.a.v)
          /\ (pin.b.k \in IntegerKinds /\ pin.b.v = pin.a.v) => pout.eq = <<TRUE, NoErr>>

\* C10 witness: eq("100", 100) evaluated to true.
C10_Witness ==
    /\ pout.op = "compare" /\ pin.a = GoString("100") /\ pin.b = GoInt(100)
    /\ pout.eq = <<TRUE, NoErr>> /\ pout.ne = <<FALSE, NoErr>>

(***************************************************************************)
(* The JSON round trip of a Rule: serialize, parse, evaluate both.         *)
(***************************************************************************)
RecordB ==
    GoMap("age" :> GoInt(17) @@ "role" :> GoString("user")
          @@ "m" :> GoMap("a" :> GoInt(1))
          @@ "user" :> GoMap("role" :> GoString("admin")))

WireConds ==
    {Condition("age", "gt", GoInt(18)),
     Condition("age", "eq", GoInt(17)),
     Condition("role", "in", GoSlice(<<GoString("user"), GoString("admin")>>)),
     Condition("role", "in", GoStringSlice(<<"user", "admin">>)),
     Condition("age", "in", GoIntSlice(<<17>>)),
     Condition("user", "eq", GoMap("role" :> GoString("admin"))),
     Condition("m", "eq", GoMap("a" :> GoInt(1))),
     Condition("age", "same", GoInt(17))}

WireRules == {Rule(cs, lg) : cs \in SeqsUpTo(WireConds, MaxConds), lg \in {"", "or"}}

InitWire ==
    /\ ops \in {New, Register(New, "same", "sameType")}
    /\ rule = Rule(<<>>, "")
    /\ NoCall
    /\ regLog = <<>> /\ regAfterRule = FALSE
    /\ pin \in {[op |-> "rule", rule |-> r, data |-> d] :
                    r \in WireRules, d \in {RecordB, NilData}}
    /\ pout = [op |-> "none"]
    /\ ConcIdle

\* json.Marshal(rule)
SerializeRule ==
    /\ pout.op = "none" /\ pin.op = "rule"
    /\ pout' = [op |-> "wire", wire |-> MarshalRule(pin.rule)]
    /\ UNCHANGED <<engineVars, pin, concVars>>

\* json.Unmarshal(wire, &rule2)
ParseRule ==
    /\ pout.op = "wire"
    /\ pout' = [op |-> "parsed", rule2 |-> UnmarshalRule(pout.wire)]
    /\ UNCHANGED <<engineVars, pin, concVars>>

\* e.Evaluate of the original Rule and of the parsed one, on the same record.
EvaluateBoth ==
    /\ pout.op = "parsed"
    /\ pout' = [op |-> "evaluated", rule2 |-> pout.rule2,
                orig |-> EngineEvaluate(pin.rule, pin.data, ops),
                back |-> EngineEvaluate(pout.rule2, pin.data, ops)]
    /\ UNCHANGED <<engineVars, pin, concVars>>

NextWire == SerializeRule \/ ParseRule \/ EvaluateBoth

SpecWire == InitWire /\ [][NextWire]_vars

\* C7: a Rule serialized to JSON and parsed back evaluates like the original
\* on every record and registry: an error in the same cases, else the same
\* matched value.
C7_RoundTripSameBehaviour ==
    pout.op = "evaluated" =>
        /\ (pout.orig[2] = NoErr) <=> (pout.back[2] = NoErr)
        /\ pout.orig[2] = NoErr => pout.orig[1].Matched = pout.back[1].Matched

(***************************************************************************)
(* One Engine shared by goroutines: evaluators reach the lookup            *)
(* e.ops[c.Op] of evalCondition while others call Register.  Engine has no *)
(* lock, so the accesses to the Go map are not atomic: each has a begin    *)
(* and an end, and nothing keeps them apart.  An access that overlapped a  *)
(* write is a data race, whose outcome the Go memory model leaves open:    *)
(* the runtime may stop the program ("concurrent map read and map write",  *)
(* "concurrent map writes"), or the access sees the map in any state.      *)
(***************************************************************************)
Evaluators == {"e1", "e2"}
Registrars == {"r1", "r2"}
Goroutines == Evaluators \cup Registrars

ConcRegistrations == {<<"gt", "alwaysFalse">>, <<"between", "alwaysTrue">>}

Active(t) == tpc[t] \in {"reading", "writing"}
Writing(t) == tpc[t] = "writing"

InitConc ==
    /\ ops = New
    /\ rule = Rule(<<>>, "")
    /\ NoCall
    /\ regLog = <<>> /\ regAfterRule = FALSE
    /\ PureIdle
    /\ tpc = [t \in Goroutines |-> "idle"]
    /\ tlocal = [t \in Goroutines |-> [op |-> "", fn |-> "", raced |-> FALSE]]
    /\ mapState = "ok"

\* Every access in progress is marked as raced when a write begins beside it.
MarkRaced(loc, t) ==
    [u \in Goroutines |->
        IF u # t /\ Active(u) THEN [loc[u] EXCEPT !.raced = TRUE] ELSE loc[u]]

\* evalCondition line 145 begins: fn, ok := e.ops[c.Op]
LookupBegin(t, op) ==
    /\ mapState = "ok" /\ tpc[t] = "idle"
    /\ tpc' = [tpc EXCEPT ![t] = "reading"]
    /\ tlocal' = [tlocal EXCEPT ![t] = [op |-> op, fn |-> "",
                                         raced |-> \E w \in Goroutines : Writing(w)]]
    /\ UNCHANGED <<engineVars, pureVars, mapState>>

\* The lookup ends.  Unraced it yields the registered function or not-found;
\* raced, anything, or the runtime stops the program.
LookupEnd(t) ==
    /\ mapState = "ok" /\ tpc[t] = "reading"
    /\ LET op == tlocal[t].op
           clean == IF op \in DOMAIN ops THEN ops[op] ELSE "notfound"
       IN  \/ /\ tpc' = [tpc EXCEPT ![t] = "done"]
              /\ tlocal' = [tlocal EXCEPT ![t].fn = clean]
              /\ UNCHANGED mapState
           \/ /\ tlocal[t].raced
              /\ tpc' = [tpc EXCEPT ![t] = "done"]
              /\ tlocal' = [tlocal EXCEPT ![t].fn = "corrupt"]
              /\ UNCHANGED mapState
           \/ /\ tlocal[t].raced
              /\ mapState' = "fatal"
              /\ UNCHANGED <<tpc, tlocal>>
    /\ UNCHANGED <<engineVars, pureVars>>

\* Register line 81 begins: e.ops[op] = fn
StoreBegin(t, op, fn) ==
    /\ mapState = "ok" /\ tpc[t] = "idle"
    /\ tpc' = [tpc EXCEPT ![t] = "writing"]
    /\ tlocal' = [MarkRaced(tlocal, t) EXCEPT ![t] =
                      [op |-> op, fn |-> fn, raced |-> \E u \in Goroutines : Active(u)]]
    /\ UNCHANGED <<engineVars, pureVars, mapState>>

\* The store ends.  Unraced the map holds fn under op; raced, the entry may be
\* damaged, or the runtime stops the program.
StoreEnd(t) ==
    /\ mapState = "ok" /\ tpc[t] = "writing"
    /\ \/ /\ ops' = Register(ops, tlocal[t].op, tlocal[t].fn)
          /\ tpc' = [tpc EXCEPT ![t] = "done"]
          /\ UNCHANGED mapState
       \/ /\ tlocal[t].raced
          /\ ops' = Register(ops, tlocal[t].op, "corrupt")
          /\ tpc' = [tpc EXCEPT ![t] = "done"]
          /\ UNCHANGED mapState
       \/ /\ tlocal[t].raced
          /\ mapState' = "fatal"
          /\ UNCHANGED <<ops, tpc>>
    /\ UNCHANGED <<rule, data, ctxKind, ctxErr, pc, i, logic, result, err, events,
                   callCtxErr, cancelledAt, regLog, regAfterRule, pureVars, tlocal>>

NextConc ==
    \/ \E t \in Evaluators, op \in RegOps : LookupBegin(t, op)
    \/ \E t \in Evaluators : LookupEnd(t)
    \/ \E t \in Registrars, reg \in ConcRegistrations : StoreBegin(t, reg[1], reg[2])
    \/ \E t \in Registrars : StoreEnd(t)

SpecConc == InitConc /\ [][NextConc]_vars

\* C5: the registry is used under a data-race-safe discipline: no Register
\* write overlaps a lookup or another write, and a lookup yields a completely
\* registered function or not-found (and the program is not stopped).
C5_RegistryIsRaceFree ==
    /\ \A w \in DOMAIN tpc :
          Writing(w) => \A t \in DOMAIN tpc : t # w => ~Active(t)
    /\ \A t \in DOMAIN tpc :
          (t \in Evaluators /\ tpc[t] = "done") =>
              tlocal[t].fn \in BuiltinFns \cup RegFns \cup {"notfound"}
    /\ mapState = "ok"

====
